---- MODULE Spec2Model ----
(***************************************************************************)
(* Model of the Twilio negotiation desktop console (desktop/src).          *)
(*                                                                         *)
(*   config.rs  Config::default         base URL from the environment      *)
(*   client.rs  NegotiationClient       two GET requests, JSON decoding    *)
(*   main.rs    main, render_dashboard  argument parsing, the two fetches, *)
(*                                      dashboard or error report          *)
(*                                                                         *)
(* Strings whose content matters (the base URL, the environment value)     *)
(* are sequences of one-character strings, so that concatenation and       *)
(* substring search are computed.  An f64 is an integer number of          *)
(* ten-thousandths.                                                        *)
(***************************************************************************)
EXTENDS Integers, Sequences, FiniteSets, TLC

VARIABLES argv, envVar, pc, args, config, client, response, envelope,
          health, requests, received, stdout, stderr, exitStatus

vars == <<argv, envVar, pc, args, config, client, response, envelope,
          health, requests, received, stdout, stderr, exitStatus>>

\* Longest command line (number of arguments after the program name).
MaxArgs == 2

\* Longest value of the environment variable, in bytes.
MaxEnvLen == 1

None == [tag |-> "none"]

(***************************************************************************)
(* Strings as character sequences.                                         *)
(***************************************************************************)

\* config.rs:11, the fallback literal "http://localhost:8000/api/v1".
DefaultBaseUrl ==
    <<"h","t","t","p",":","/","/","l","o","c","a","l","h","o","s","t",
      ":","8","0","0","0","/","a","p","i","/","v","1">>

\* client.rs:61, the literal searched for by the unit test.
Localhost == <<"l","o","c","a","l","h","o","s","t">>

\* client.rs:42, the literal of format!("{}/negotiation", ..).
NegotiationPath == <<"/","n","e","g","o","t","i","a","t","i","o","n">>

\* client.rs:48, the literal of format!("{}/health", ..).
HealthPath == <<"/","h","e","a","l","t","h">>

\* str::contains: sub occurs in s as a contiguous run of characters.
Contains(s, sub) ==
    \E i \in 0..(Len(s) - Len(sub)) :
        \A k \in 1..Len(sub) : s[i + k] = sub[k]

(***************************************************************************)
(* The process environment and std::env::var.                              *)
(***************************************************************************)

\* Bytes an environment value is made of; "0xFF" is a byte that is not
\* valid UTF-8.
EnvBytes == {"h", " ", "0xFF"}

RECURSIVE SeqsUpTo(_, _)
SeqsUpTo(S, n) ==
    IF n = 0 THEN {<<>>}
    ELSE LET shorter == SeqsUpTo(S, n - 1)
         IN  shorter \cup {Append(s, e) : s \in shorter, e \in S}

\* NEGOTIATION_API_BASE is unset, or set to a byte string.
EnvStates ==
    {None} \cup {[tag |-> "set", value |-> v] : v \in SeqsUpTo(EnvBytes, MaxEnvLen)}

IsUnicode(bytes) == \A i \in 1..Len(bytes) : bytes[i] # "0xFF"

\* std::env::var: Ok(value) when the variable is set to valid Unicode,
\* Err(NotPresent) when it is unset, Err(NotUnicode) otherwise.
EnvVarLookup(e) ==
    IF e.tag = "none" THEN [tag |-> "err", kind |-> "NotPresent"]
    ELSE IF ~IsUnicode(e.value) THEN [tag |-> "err", kind |-> "NotUnicode"]
    ELSE [tag |-> "ok", value |-> e.value]

\* The value of the variable is trimmed of blanks.
ConfigDefaultTrimmed(e) ==
    LET looked == EnvVarLookup(e)
    IN  [tag |-> "some",
         base_url |-> IF looked.tag = "ok"
                      THEN SelectSeq(looked.value, LAMBDA c : c # " ")
                      ELSE DefaultBaseUrl]

\* Config::default: env::var(..).unwrap_or_else(|_| default).
ConfigDefault(e) ==
    LET looked == EnvVarLookup(e)
    IN  [tag |-> "some",
         base_url |-> IF looked.tag = "ok" THEN looked.value ELSE DefaultBaseUrl]

(***************************************************************************)
(* Command line: #[derive(Parser)] struct Args { pretty: bool }.           *)
(*   #[arg(short, long, default_value = "true")] on a bool field gives a   *)
(*   flag --pretty / -p with action SetTrue that takes no value; clap adds *)
(*   --help.                                                               *)
(***************************************************************************)

ArgTokens == {"--pretty", "-p", "--pretty=false", "false", "--help"}

ArgvSet == SeqsUpTo(ArgTokens, MaxArgs)

\* The value parser of a bool argument, applied to the default_value string.
ParseBool(s) ==
    IF s = "true" THEN [tag |-> "ok", value |-> TRUE]
    ELSE IF s = "false" THEN [tag |-> "ok", value |-> FALSE]
    ELSE [tag |-> "err"]

\* Arguments are consumed left to right; the first error or --help ends the
\* parse.  seen: the flag has already occurred.
RECURSIVE ParseFrom(_, _, _)
ParseFrom(a, i, seen) ==
    IF i > Len(a)
    THEN [tag |-> "ok",
          pretty |-> IF seen THEN TRUE ELSE ParseBool("true").value]
    ELSE IF a[i] = "--help" THEN [tag |-> "help"]
    ELSE IF a[i] \in {"--pretty", "-p"}
    THEN IF seen THEN [tag |-> "usage"] ELSE ParseFrom(a, i + 1, TRUE)
    ELSE [tag |-> "usage"]

\* Args::parse().
ArgsParse(a) == ParseFrom(a, 1, FALSE)

(***************************************************************************)
(* JSON documents and serde deserialization (client.rs:7-26).              *)
(***************************************************************************)

\* JSON values: a string, an integer number, a number with a fraction (in
\* ten-thousandths), a boolean, null.
JStr(s) == [t |-> "str", str |-> s]
JInt(n) == [t |-> "int", int |-> n]
JFloat(n) == [t |-> "float", tenThousandths |-> n]
JBool(b) == [t |-> "bool", bool |-> b]
JNull == [t |-> "null"]

\* #[derive(Deserialize)] struct NegotiationPayload: field name to Rust type.
NegotiationShape ==
    [currency |-> "String", revenue |-> "f64", expense |-> "f64",
     target_margin |-> "f64", floor_margin |-> "f64", ceiling_margin |-> "f64",
     target_discount |-> "f64", floor_discount |-> "f64",
     ceiling_discount |-> "f64"]

\* #[derive(Deserialize)] struct HealthPayload: field name to Rust type.
HealthShape ==
    [supabase_online |-> "bool", twilio_online |-> "bool",
     cached_notifications |-> "i64", generated_at |-> "String"]

\* Which JSON values a field of the given Rust type accepts: an f64 takes any
\* JSON number, an i64 only an integer, String and bool only their own kind.
Accepts(ty, j) ==
    CASE ty = "String" -> j.t = "str"
      [] ty = "f64"    -> j.t \in {"int", "float"}
      [] ty = "i64"    -> j.t = "int"
      [] ty = "bool"   -> j.t = "bool"

\* The Rust value of an accepted JSON value (an integer widens to f64).
Convert(ty, j) ==
    CASE ty = "String" -> j.str
      [] ty = "f64"    -> IF j.t = "int" THEN j.int * 10000 ELSE j.tenThousandths
      [] ty = "i64"    -> j.int
      [] ty = "bool"   -> j.bool

DecodeError == [tag |-> "err", kind |-> "decode"]
NetworkError == [tag |-> "err", kind |-> "network"]

\* #[serde(default)]: the default of the Rust type.
TypeDefault(ty) ==
    CASE ty = "String" -> ""
      [] ty = "f64"    -> 0
      [] ty = "i64"    -> 0
      [] ty = "bool"   -> FALSE

\* A missing field is filled with the default of its type.
FromJsonDefaulting(shape, body) ==
    IF body.tag # "object" THEN DecodeError
    ELSE IF \E f \in DOMAIN shape \cap DOMAIN body.fields :
                ~Accepts(shape[f], body.fields[f])
    THEN DecodeError
    ELSE [tag |-> "ok",
          value |-> [f \in DOMAIN shape |->
                        IF f \in DOMAIN body.fields
                        THEN Convert(shape[f], body.fields[f])
                        ELSE TypeDefault(shape[f])]]

\* serde_json::from_slice::<T>: every field of the struct must be present in
\* the object with an acceptable value; unknown fields are ignored.
FromJson(shape, body) ==
    IF body.tag # "object" THEN DecodeError
    ELSE IF \E f \in DOMAIN shape :
                \/ f \notin DOMAIN body.fields
                \/ ~Accepts(shape[f], body.fields[f])
    THEN DecodeError
    ELSE [tag |-> "ok",
          value |-> [f \in DOMAIN shape |-> Convert(shape[f], body.fields[f])]]

\* error_for_status() before json(): a status outside 2xx is an error.
ResponseJsonCheckingStatus(shape, resp) ==
    IF resp.status \notin 200..299
    THEN [tag |-> "err", kind |-> "status"]
    ELSE FromJson(shape, resp.body)

\* client.rs:44 and :50, response.json::<T>(): the body is decoded; the
\* status of the response is not looked at.
ResponseJson(shape, resp) == FromJson(shape, resp.body)

(***************************************************************************)
(* What the remote service may answer.                                     *)
(***************************************************************************)

\* The mock documents of the specification's testable properties.
GoodNegotiation ==
    [currency |-> JStr("USD"), revenue |-> JFloat(10000000),
     expense |-> JFloat(4000000), target_margin |-> JFloat(3000),
     floor_margin |-> JFloat(2000), ceiling_margin |-> JFloat(4000),
     target_discount |-> JFloat(1000), floor_discount |-> JFloat(500),
     ceiling_discount |-> JFloat(1500)]

GoodHealth ==
    [supabase_online |-> JBool(TRUE), twilio_online |-> JBool(FALSE),
     cached_notifications |-> JInt(3),
     generated_at |-> JStr("2024-01-01T00:00:00Z")]

JSamples == {JStr("x"), JInt(7), JFloat(2500), JBool(FALSE), JNull}

Without(obj, f) == [g \in DOMAIN obj \ {f} |-> obj[g]]

With(obj, f, j) == [g \in DOMAIN obj \cup {f} |-> IF g = f THEN j ELSE obj[g]]

\* A document, the document with one field dropped or replaced, the document
\* with an unknown field added, and a body that is no JSON object.
BodiesAround(good) ==
    {[tag |-> "notjson"]} \cup
    {[tag |-> "object", fields |-> o] :
        o \in {good, With(good, "extra", JNull)}
              \cup {Without(good, f) : f \in DOMAIN good}
              \cup {With(good, f, j) : f \in DOMAIN good, j \in JSamples}}

Statuses == {200, 500}

ResponsesAround(good) ==
    {[tag |-> "response", status |-> s, body |-> b] :
        s \in Statuses, b \in BodiesAround(good)}

(***************************************************************************)
(* main.rs: rendering and reporting.                                       *)
(***************************************************************************)

\* "{:.2}": a number of ten-thousandths shown in hundredths.
Fmt2(x) == (x + 50) \div 100

\* status_badge.
status_badge(active) ==
    IF active THEN [text |-> "ONLINE", style |-> "green bold"]
    ELSE [text |-> "DEGRADED", style |-> "yellow bold"]

\* render_dashboard: the lines written to standard output.
render_dashboard(cfg, env, hl, pretty) ==
    <<[label |-> "Twilio Negotiation Snapshot"],
      [label |-> "Endpoint", url |-> cfg.base_url],
      [label |-> "Currency", text |-> env.currency],
      [label |-> "Revenue", hundredths |-> Fmt2(env.revenue)],
      [label |-> "Expense", hundredths |-> Fmt2(env.expense)],
      [label |-> "Target Margin",
       target |-> Fmt2(env.target_margin * 100),
       floor |-> Fmt2(env.floor_margin * 100),
       ceiling |-> Fmt2(env.ceiling_margin * 100)],
      [label |-> "Discounts",
       target |-> Fmt2(env.target_discount * 100),
       floor |-> Fmt2(env.floor_discount * 100),
       ceiling |-> Fmt2(env.ceiling_discount * 100)]>>
    \o
    IF pretty
    THEN <<[label |-> "Health", mode |-> "badges",
            supabase |-> status_badge(hl.supabase_online),
            twilio |-> status_badge(hl.twilio_online),
            cached |-> hl.cached_notifications],
           [label |-> "Last Sync", text |-> hl.generated_at]>>
    ELSE <<[label |-> "Health", mode |-> "key=value",
            supabase_online |-> hl.supabase_online,
            twilio_online |-> hl.twilio_online,
            cached_notifications |-> hl.cached_notifications],
           [label |-> "last_sync", text |-> hl.generated_at]>>

Banner == [label |-> "Failed to fetch negotiation data", style |-> "red bold"]

\* The health error is looked at only when the negotiation succeeded.
ReportFailureElseIf(negotiation, hl) ==
    <<Banner>>
    \o (IF negotiation.tag = "err"
        THEN <<[label |-> "Negotiation error", err |-> negotiation.kind]>>
        ELSE IF hl.tag = "err"
        THEN <<[label |-> "Health error", err |-> hl.kind]>>
        ELSE <<>>)

\* main.rs:32-40, the arm for every pair that is not (Ok, Ok).
ReportFailure(negotiation, hl) ==
    <<Banner>>
    \o (IF negotiation.tag = "err"
        THEN <<[label |-> "Negotiation error", err |-> negotiation.kind]>>
        ELSE <<>>)
    \o (IF hl.tag = "err"
        THEN <<[label |-> "Health error", err |-> hl.kind]>>
        ELSE <<>>)

\* main.rs:29, the pattern (Ok(envelope), Ok(health)).
BothOk(negotiation, hl) == negotiation.tag = "ok" /\ hl.tag = "ok"

(***************************************************************************)
(* The run of main.                                                        *)
(***************************************************************************)

Init ==
    /\ argv \in ArgvSet
    /\ envVar \in EnvStates
    /\ pc = "start"
    /\ args = None
    /\ config = None
    /\ client = None
    /\ response = None
    /\ envelope = None
    /\ health = None
    /\ requests = <<>>
    /\ received = <<>>
    /\ stdout = <<>>
    /\ stderr = <<>>
    /\ exitStatus = "running"

\* main.rs:20.  A usage error and --help end the process inside clap.
ParseArgs ==
    /\ pc = "start"
    /\ LET parsed == ArgsParse(argv)
       IN  CASE parsed.tag = "ok" ->
                  /\ args' = [tag |-> "some", pretty |-> parsed.pretty]
                  /\ pc' = "runtime"
                  /\ UNCHANGED <<stdout, stderr, exitStatus>>
             [] parsed.tag = "help" ->
                  /\ stdout' = Append(stdout, [label |-> "help"])
                  /\ exitStatus' = "success"
                  /\ pc' = "exit"
                  /\ UNCHANGED <<args, stderr>>
             [] parsed.tag = "usage" ->
                  /\ stderr' = Append(stderr, [label |-> "usage"])
                  /\ exitStatus' = "usage error"
                  /\ pc' = "exit"
                  /\ UNCHANGED <<args, stdout>>
    /\ UNCHANGED <<argv, envVar, config, client, response, envelope, health,
                   requests, received>>

\* main.rs:21.  Runtime::new()? returns the error from main.
RuntimeNew ==
    /\ pc = "runtime"
    /\ \E built \in BOOLEAN :
        IF built
        THEN /\ pc' = "config"
             /\ UNCHANGED <<stderr, exitStatus>>
        ELSE /\ stderr' = Append(stderr, [label |-> "Error", err |-> "runtime"])
             /\ exitStatus' = "failure"
             /\ pc' = "exit"
    /\ UNCHANGED <<argv, envVar, args, config, client, response, envelope,
                   health, requests, received, stdout>>

\* main.rs:22.
BuildConfig ==
    /\ pc = "config"
    /\ config' = ConfigDefault(envVar)
    /\ pc' = "client"
    /\ UNCHANGED <<argv, envVar, args, client, response, envelope, health,
                   requests, received, stdout, stderr, exitStatus>>

\* main.rs:23, client.rs:34-39.  expect("client") panics when the transport
\* client cannot be built.
ClientNew ==
    /\ pc = "client"
    /\ \E built \in BOOLEAN :
        IF built
        THEN /\ client' = [tag |-> "some", config |-> config]
             /\ pc' = "negotiation"
             /\ UNCHANGED <<stderr, exitStatus>>
        ELSE /\ stderr' = Append(stderr, [label |-> "panic", msg |-> "client"])
             /\ exitStatus' = "panic"
             /\ pc' = "exit"
             /\ UNCHANGED client
    /\ UNCHANGED <<argv, envVar, args, config, response, envelope, health,
                   requests, received, stdout>>

\* A failed negotiation fetch is tried a second time.
AfterNegotiationRetryOnce(result) ==
    IF result.tag = "err" /\ Len(requests) < 2 THEN "negotiation" ELSE "health"

\* The negotiation error is propagated with `?` and the health fetch skipped.
AfterNegotiationPropagate(result) ==
    IF result.tag = "err" THEN "match" ELSE "health"

\* main.rs:25-26: block_on(client.negotiation()) returns before
\* block_on(client.health()) is entered, whatever the result.
AfterNegotiation(result) == "health"

\* main.rs:25, client.rs:42-43: the URL is formatted and the GET is issued.
NegotiationRequest ==
    /\ pc = "negotiation"
    /\ requests' = Append(requests,
            [method |-> "GET", url |-> client.config.base_url \o NegotiationPath])
    /\ pc' = "negotiation send"
    /\ UNCHANGED <<argv, envVar, args, config, client, response, envelope,
                   health, received, stdout, stderr, exitStatus>>

\* The transport client is built with a timeout: the await may also end
\* without the request having completed.
NegotiationSendWithTimeout ==
    /\ pc = "negotiation send"
    /\ \/ /\ envelope' \in {NetworkError, [tag |-> "err", kind |-> "timeout"]}
          /\ pc' = AfterNegotiation(envelope')
          /\ UNCHANGED <<response, received>>
       \/ /\ \E r \in ResponsesAround(GoodNegotiation) : response' = r
          /\ received' = Append(received, response'.status)
          /\ pc' = "negotiation json"
          /\ UNCHANGED envelope
    /\ UNCHANGED <<argv, envVar, args, config, client, health, requests,
                   stdout, stderr, exitStatus>>

\* client.rs:43: send().await? completes, with a transport failure (the
\* request could not be sent, the connection failed) or with a response of
\* any status.
NegotiationSend ==
    /\ pc = "negotiation send"
    /\ \/ /\ envelope' = NetworkError
          /\ pc' = AfterNegotiation(envelope')
          /\ UNCHANGED <<response, received>>
       \/ /\ \E r \in ResponsesAround(GoodNegotiation) : response' = r
          /\ received' = Append(received, response'.status)
          /\ pc' = "negotiation json"
          /\ UNCHANGED envelope
    /\ UNCHANGED <<argv, envVar, args, config, client, health, requests,
                   stdout, stderr, exitStatus>>

\* client.rs:44: response.json::<NegotiationPayload>().await? consumes the
\* response.
NegotiationJson ==
    /\ pc = "negotiation json"
    /\ envelope' = ResponseJson(NegotiationShape, response)
    /\ response' = None
    /\ pc' = AfterNegotiation(envelope')
    /\ UNCHANGED <<argv, envVar, args, config, client, health, requests,
                   received, stdout, stderr, exitStatus>>

\* main.rs:26, client.rs:48-49.
HealthRequest ==
    /\ pc = "health"
    /\ requests' = Append(requests,
            [method |-> "GET", url |-> client.config.base_url \o HealthPath])
    /\ pc' = "health send"
    /\ UNCHANGED <<argv, envVar, args, config, client, response, envelope,
                   health, received, stdout, stderr, exitStatus>>

\* client.rs:49.
HealthSend ==
    /\ pc = "health send"
    /\ \/ /\ health' = NetworkError
          /\ pc' = "match"
          /\ UNCHANGED <<response, received>>
       \/ /\ \E r \in ResponsesAround(GoodHealth) : response' = r
          /\ received' = Append(received, response'.status)
          /\ pc' = "health json"
          /\ UNCHANGED health
    /\ UNCHANGED <<argv, envVar, args, config, client, envelope, requests,
                   stdout, stderr, exitStatus>>

\* client.rs:50.
HealthJson ==
    /\ pc = "health json"
    /\ health' = ResponseJson(HealthShape, response)
    /\ response' = None
    /\ pc' = "match"
    /\ UNCHANGED <<argv, envVar, args, config, client, envelope, requests,
                   received, stdout, stderr, exitStatus>>

\* The title is printed before the results are matched.
MatchTitleFirst ==
    /\ pc = "match"
    /\ IF BothOk(envelope, health)
       THEN /\ stdout' = stdout \o render_dashboard(config, envelope.value,
                                                    health.value, args.pretty)
            /\ UNCHANGED stderr
       ELSE /\ stderr' = stderr \o ReportFailure(envelope, health)
            /\ stdout' = Append(stdout, [label |-> "Twilio Negotiation Snapshot"])
    /\ pc' = "return"
    /\ UNCHANGED <<argv, envVar, args, config, client, response, envelope,
                   health, requests, received, exitStatus>>

\* main.rs:28-41: the dashboard on standard output, or the report on
\* standard error.
Match ==
    /\ pc = "match"
    /\ IF BothOk(envelope, health)
       THEN /\ stdout' = stdout \o render_dashboard(config, envelope.value,
                                                    health.value, args.pretty)
            /\ UNCHANGED stderr
       ELSE /\ stderr' = stderr \o ReportFailure(envelope, health)
            /\ UNCHANGED stdout
    /\ pc' = "return"
    /\ UNCHANGED <<argv, envVar, args, config, client, response, envelope,
                   health, requests, received, exitStatus>>

\* A failed fetch is turned into an error exit.
ReturnStatusFailing(negotiation, hl) ==
    IF BothOk(negotiation, hl) THEN "success" ELSE "failure"

\* main.rs:43: Ok(()) whatever was fetched.
ReturnStatus(negotiation, hl) == "success"

Return ==
    /\ pc = "return"
    /\ exitStatus' = ReturnStatus(envelope, health)
    /\ pc' = "exit"
    /\ UNCHANGED <<argv, envVar, args, config, client, response, envelope,
                   health, requests, received, stdout, stderr>>

Next ==
    \/ ParseArgs
    \/ RuntimeNew
    \/ BuildConfig
    \/ ClientNew
    \/ NegotiationRequest
    \/ NegotiationSend
    \/ NegotiationJson
    \/ HealthRequest
    \/ HealthSend
    \/ HealthJson
    \/ Match
    \/ Return

Spec == Init /\ [][Next]_vars

\* Every step that is enabled is eventually taken: the runtime drives the
\* task, and every issued request completes.
LiveSpec == Spec /\ WF_vars(Next)

(***************************************************************************)
(* Vocabulary of the properties.                                           *)
(***************************************************************************)

DashboardLabels ==
    {"Twilio Negotiation Snapshot", "Endpoint", "Currency", "Revenue",
     "Expense", "Target Margin", "Discounts", "Health", "Last Sync",
     "last_sync"}

ReportLabels ==
    {"Failed to fetch negotiation data", "Negotiation error", "Health error"}

Labelled(out, labels) == {i \in 1..Len(out) : out[i].label \in labels}

\* Some line of the dashboard is on standard output.
DashboardStarted == Labelled(stdout, DashboardLabels) # {}

\* The whole dashboard, and nothing else, is on standard output.
DashboardComplete ==
    /\ Len(stdout) = 9
    /\ \A i \in 1..9 : stdout[i].label \in DashboardLabels
    /\ stdout[1].label = "Twilio Negotiation Snapshot"
    /\ stdout[8].label = "Health"

\* Some line of main's error report is on standard error.
ReportStarted == Labelled(stderr, ReportLabels) # {}

Finished == pc \in {"return", "exit"}

NegotiationRequested ==
    \E i \in 1..Len(requests) : requests[i].url = config.base_url \o NegotiationPath

HealthRequested ==
    \E i \in 1..Len(requests) : requests[i].url = config.base_url \o HealthPath

(***************************************************************************)
(* C1.  The dashboard is written to standard output if and only if both    *)
(* fetches succeeded; when either failed no line of the dashboard is       *)
(* written, and no run has both a dashboard and an error report.           *)
(***************************************************************************)
C1_DashboardIffBothOk ==
    /\ DashboardStarted => BothOk(envelope, health) /\ DashboardComplete
    /\ Finished /\ BothOk(envelope, health) => DashboardComplete
    /\ Finished /\ ~BothOk(envelope, health) => ~DashboardStarted
    /\ ~(DashboardStarted /\ ReportStarted)

C1_Witness ==
    /\ pc = "exit"
    /\ envelope.tag = "ok" /\ health.tag = "err"
    /\ stdout = <<>>
    /\ ReportStarted

(***************************************************************************)
(* C2.  When at least one fetch failed, standard error holds the banner    *)
(* exactly once and first, then a "Negotiation error" line iff the         *)
(* negotiation fetch failed, then a "Health error" line iff the health     *)
(* fetch failed; each line carries the error of its own fetch.             *)
(***************************************************************************)
C2_ReportPerFailure ==
    (Finished /\ (envelope.tag = "err" \/ health.tag = "err")) =>
        LET banners == Labelled(stderr, {"Failed to fetch negotiation data"})
            negs    == Labelled(stderr, {"Negotiation error"})
            hls     == Labelled(stderr, {"Health error"})
        IN  /\ banners = {1}
            /\ Cardinality(negs) = (IF envelope.tag = "err" THEN 1 ELSE 0)
            /\ Cardinality(hls) = (IF health.tag = "err" THEN 1 ELSE 0)
            /\ Len(stderr) = 1 + Cardinality(negs) + Cardinality(hls)
            /\ \A i \in negs : stderr[i].err = envelope.kind
            /\ \A i \in hls : stderr[i].err = health.kind
            /\ \A i \in negs, j \in hls : i < j

C2_Witness ==
    /\ pc = "exit"
    /\ envelope.tag = "err" /\ health.tag = "err"
    /\ envelope.kind # health.kind
    /\ Len(stderr) = 3

(***************************************************************************)
(* C3.  The health request is not begun before the negotiation request     *)
(* has completed, it is issued whatever the negotiation result, and        *)
(* nothing is rendered or reported before both results are available.      *)
(***************************************************************************)
C3_SequentialFetches ==
    /\ HealthRequested => envelope # None
    /\ (envelope # None /\ pc # "health") => HealthRequested
    /\ (DashboardStarted \/ ReportStarted) => (envelope # None /\ health # None)
    /\ health # None => envelope # None

C3_Witness ==
    /\ pc = "health send"
    /\ envelope.tag = "err"
    /\ HealthRequested

(***************************************************************************)
(* C4.  After the dashboard and after a failure report the exit status is  *)
(* success; an error exit happens only at startup, with no request issued  *)
(* and nothing rendered or reported by main.                               *)
(***************************************************************************)
C4_ExitStatus ==
    /\ (pc = "exit" /\ (DashboardStarted \/ ReportStarted)) =>
            exitStatus = "success"
    /\ (pc = "exit" /\ (envelope # None \/ health # None)) =>
            exitStatus = "success"
    /\ exitStatus \notin {"running", "success"} =>
            /\ pc = "exit"
            /\ requests = <<>>
            /\ client = None
            /\ ~DashboardStarted /\ ~ReportStarted
    /\ (pc = "exit") = (exitStatus # "running")

C4_Witness ==
    /\ pc = "exit"
    /\ envelope = DecodeError /\ health = NetworkError
    /\ ReportStarted
    /\ exitStatus = "success"

(***************************************************************************)
(* C5 as written.  Config::default never fails; the base URL is V exactly  *)
(* whenever NEGOTIATION_API_BASE is set to V, and the default (which       *)
(* contains "localhost") when it is unset; the URLs requested are the base *)
(* URL followed by /negotiation and /health.                               *)
(***************************************************************************)
RequestsFollow(base) ==
    /\ Len(requests) <= 2
    /\ Len(requests) >= 1 => requests[1].url = base \o NegotiationPath
    /\ Len(requests) >= 2 => requests[2].url = base \o HealthPath

C5_AsClaimed ==
    /\ pc \notin {"start", "runtime", "config", "exit"} => config # None
    /\ config # None =>
        /\ envVar.tag = "set" =>
               config.base_url = envVar.value /\ RequestsFollow(envVar.value)
        /\ envVar.tag = "none" =>
               /\ config.base_url = DefaultBaseUrl
               /\ Contains(config.base_url, Localhost)
               /\ RequestsFollow(DefaultBaseUrl)

(***************************************************************************)
(* C5 amended.  The base URL is V exactly whenever NEGOTIATION_API_BASE is *)
(* set to a value V that is valid Unicode; when the variable is unset, or  *)
(* set to a value that is not valid Unicode, it is the default, which      *)
(* contains "localhost".  Config::default never fails and the URLs         *)
(* requested are the base URL followed by /negotiation and /health.        *)
(***************************************************************************)
C5_BaseUrl ==
    /\ pc \notin {"start", "runtime", "config", "exit"} => config # None
    /\ config # None =>
        /\ (envVar.tag = "set" /\ IsUnicode(envVar.value)) =>
               config.base_url = envVar.value /\ RequestsFollow(envVar.value)
        /\ (envVar.tag = "none" \/ ~IsUnicode(envVar.value)) =>
               /\ config.base_url = DefaultBaseUrl
               /\ Contains(config.base_url, Localhost)
               /\ RequestsFollow(DefaultBaseUrl)

C5_Witness ==
    /\ pc = "exit"
    /\ Len(requests) = 2
    /\ envVar = [tag |-> "set", value |-> <<" ">>]
    /\ config.base_url = <<" ">>
    /\ requests[2].url = <<" ", "/", "h", "e", "a", "l", "t", "h">>

(***************************************************************************)
(* C6.  For either endpoint a body that is not a JSON document of the      *)
(* expected shape (a required field missing or of the wrong type) makes    *)
(* the fetch fail with a decode error; a record that is returned has every *)
(* field; the failure ends as a line on standard error and a normal exit,  *)
(* never as a dashboard or a panic.                                        *)
(***************************************************************************)
Malformed(shape, body) ==
    \/ body.tag # "object"
    \/ \E f \in DOMAIN shape :
          \/ f \notin DOMAIN body.fields
          \/ ~Accepts(shape[f], body.fields[f])

DecodeReported(label) ==
    \E i \in 1..Len(stderr) : stderr[i] = [label |-> label, err |-> "decode"]

C6_DecodeAllOrNothing ==
    /\ [](envelope.tag = "ok" => DOMAIN envelope.value = DOMAIN NegotiationShape)
    /\ [](health.tag = "ok" => DOMAIN health.value = DOMAIN HealthShape)
    /\ [][(pc = "negotiation json" /\ Malformed(NegotiationShape, response.body))
            => envelope' = DecodeError]_vars
    /\ [][(pc = "health json" /\ Malformed(HealthShape, response.body))
            => health' = DecodeError]_vars
    /\ []((Finished /\ envelope = DecodeError) =>
            DecodeReported("Negotiation error") /\ ~DashboardStarted)
    /\ []((Finished /\ health = DecodeError) =>
            DecodeReported("Health error") /\ ~DashboardStarted)
    /\ []((pc = "exit" /\ (envelope = DecodeError \/ health = DecodeError)) =>
            exitStatus = "success")

C6_Witness ==
    /\ pc = "exit"
    /\ envelope.tag = "ok" /\ health = DecodeError
    /\ DecodeReported("Health error")
    /\ stdout = <<>>

(***************************************************************************)
(* C7.  The run is one linear sequence: the position only moves forward,   *)
(* each endpoint is requested at most once and, in a run that gets past    *)
(* startup, exactly once; a result, failed or not, is never replaced (no   *)
(* retry, no default, no cached value).                                    *)
(***************************************************************************)
PcOrder ==
    <<"start", "runtime", "config", "client", "negotiation",
      "negotiation send", "negotiation json", "health", "health send",
      "health json", "match", "return", "exit">>

Rank(p) == CHOOSE i \in 1..Len(PcOrder) : PcOrder[i] = p

RequestCount(path) ==
    Cardinality({i \in 1..Len(requests) : requests[i].url = config.base_url \o path})

C7_LinearRun ==
    /\ [][Rank(pc') > Rank(pc)]_vars
    /\ [](RequestCount(NegotiationPath) <= 1 /\ RequestCount(HealthPath) <= 1)
    /\ []((client # None /\ pc \in {"match", "return", "exit"}) =>
            /\ Len(requests) = 2
            /\ RequestCount(NegotiationPath) = 1
            /\ RequestCount(HealthPath) = 1)
    /\ [][envelope # None => envelope' = envelope]_vars
    /\ [][health # None => health' = health]_vars
    /\ []((Finished /\ (envelope.tag = "err" \/ health.tag = "err")) =>
            ~DashboardStarted)

C7_Witness ==
    /\ pc = "exit"
    /\ envelope = NetworkError /\ health = DecodeError
    /\ Len(requests) = 2

(***************************************************************************)
(* C8.  When every enabled step, the completion of an issued request       *)
(* included, is eventually taken, a run that has issued its first request  *)
(* reaches exit with the dashboard rendered or the failure reported.       *)
(* While a request is outstanding nothing is rendered or reported and the  *)
(* process has not exited, and an await is left only by the request        *)
(* completing: there is no timeout and no cancellation.                    *)
(***************************************************************************)
Awaiting ==
    {"negotiation send", "negotiation json", "health send", "health json"}

C8_Termination ==
    /\ (pc = "negotiation send") ~>
            (pc = "exit" /\ (DashboardComplete \/ ReportStarted))
    /\ [](pc \in Awaiting =>
            ~DashboardStarted /\ ~ReportStarted /\ exitStatus = "running")
    /\ [][pc = "negotiation send" =>
            (\/ envelope' = NetworkError /\ received' = received
             \/ response' # None /\ Len(received') = Len(received) + 1)]_vars
    /\ [][pc = "health send" =>
            (\/ health' = NetworkError /\ received' = received
             \/ response' # None /\ Len(received') = Len(received) + 1)]_vars
    /\ [][(pc = "negotiation json" \/ pc = "health json") =>
            (response # None /\ response' = None)]_vars

C8_Witness ==
    /\ pc = "exit"
    /\ Len(received) = 2
    /\ health = DecodeError
    /\ ReportStarted

(***************************************************************************)
(* C9 as written.  The pretty option is true when absent; the health block *)
(* has badges exactly when the parsed flag is true and key=value pairs     *)
(* exactly when it is false; each of the two modes is selected by some     *)
(* command line made of --pretty / -p.                                     *)
(***************************************************************************)
C9_AsClaimed ==
    /\ (args # None /\ argv = <<>>) => args.pretty = TRUE
    /\ DashboardStarted =>
            stdout[8].mode = (IF args.pretty THEN "badges" ELSE "key=value")
    /\ \A mode \in BOOLEAN :
            \E a \in ArgvSet :
                ArgsParse(a).tag = "ok" /\ ArgsParse(a).pretty = mode

(***************************************************************************)
(* C10.  A fetch fails only with a network error or a decode error.  The   *)
(* status of a response is not inspected: a response with a status outside *)
(* 2xx yields a record exactly when its body decodes, and a decode error   *)
(* otherwise; the dashboard is rendered from records so obtained.          *)
(***************************************************************************)
Non2xx(resp) == resp.status \notin 200..299

C10_StatusNotInspected ==
    /\ [](envelope.tag = "err" => envelope.kind \in {"network", "decode"})
    /\ [](health.tag = "err" => health.kind \in {"network", "decode"})
    /\ [][(pc = "negotiation json" /\ Non2xx(response)) =>
            (IF Malformed(NegotiationShape, response.body)
             THEN envelope' = DecodeError
             ELSE envelope'.tag = "ok")]_vars
    /\ [][(pc = "health json" /\ Non2xx(response)) =>
            (IF Malformed(HealthShape, response.body)
             THEN health' = DecodeError
             ELSE health'.tag = "ok")]_vars
    /\ []((Finished /\ BothOk(envelope, health)) => DashboardComplete)

C10_Witness ==
    /\ pc = "exit"
    /\ received = <<500, 500>>
    /\ BothOk(envelope, health)
    /\ DashboardComplete
    /\ exitStatus = "success"

====
